---- MODULE Spec2Model ----
\* Model of solve.rs: a rectangular grid of tiles, the recursive path
\* enumerator (allpaths / allpaths2), the word insertion fold (add_word) and
\* the renderer (flatten / flattenWord), driven by main.
EXTENDS Integers, Sequences, FiniteSets, TLC

\* ---------------------------------------------------------------- bounds
MaxWidth == 3
MaxHeight == 2
MaxFixed == 2
MaxWords == 3
MaxIter == 1
\* Candidate vectors of up to PermLen grids are tried in every order.
PermLen == 4

\* Letters that may stand in the grid file, and the words of the word file.
Letters == {"a", "b", "c"}

WordPool ==
  { <<"a", "b">>, <<"a", "c", "b">>, <<"b", "c", "a">>, <<"a", "c", "a">>, <<"c">> }

\* ---------------------------------------------------------------- tiles
Fixed(c) == [tag |-> "Fixed", c |-> c]
NoWords == [tag |-> "NoWords"]
OneWord(c, w) == [tag |-> "OneWord", c |-> c, w |-> w]
TwoWords(c, a, b) == [tag |-> "TwoWords", c |-> c, a |-> a, b |-> b]

\* The value a failed Vec index leaves behind (task failure).
OutOfRange == [tag |-> "OutOfRange"]

Point(x, y) == [x |-> x, y |-> y]

Grid(w, h, t) == [width |-> w, height |-> h, tiles |-> t]

\* ---------------------------------------------------------------- Point
Abs(n) == IF n < 0 THEN -n ELSE n

offset(p, x, y) == Point(p.x - x, p.y - y)

dist_overcounts(p, other) == Abs(other.x - p.x) + Abs(other.y - p.y) + 1

dist_without_abs(p, other) == (other.x - p.x) + (other.y - p.y)

dist(p, other) == Abs(other.x - p.x) + Abs(other.y - p.y)

\* ---------------------------------------------------------------- Grid<T>
is_valid(g, p) ==
  IF p.x < 0 \/ p.x >= g.width THEN FALSE
  ELSE IF p.y < 0 \/ p.y >= g.height THEN FALSE
  ELSE TRUE

\* The index expression shared by set, get_ref and get_mut_ref (0-based).
tile_index(g, p) == g.height * p.y + p.x

\* Vec::get / Vec::get_mut fail on an index past the end.
in_range(g, i) == i >= 0 /\ i < Len(g.tiles)

\* None is modelled by the caller testing is_valid first; a valid point whose
\* index is past the end of the vector is a task failure.
get_ref(g, p) ==
  IF in_range(g, tile_index(g, p)) THEN g.tiles[tile_index(g, p) + 1] ELSE OutOfRange

set(g, p, data) ==
  [g EXCEPT !.tiles = [i \in 1..Len(g.tiles) |->
                         IF i = tile_index(g, p) + 1 THEN data ELSE g.tiles[i]]]

replace(g, p, data) == set(g, p, data)

\* The layout readgrid builds and Show prints: rows of `width` tiles, one row
\* after the other, so the tile of column x in row y is number width*y + x.
row_index(g, p) == g.width * p.y + p.x

tile_at(g, p) == g.tiles[row_index(g, p) + 1]

ValidPoints(g) == { Point(x, y) : x \in 0..(g.width - 1), y \in 0..(g.height - 1) }

\* ---------------------------------------------------------------- neighbors
neighbors(g, p) ==
  LET offsets == << offset(p, -1, 0), offset(p, 1, 0), offset(p, 0, -1), offset(p, 0, 1) >>
  IN  SelectSeq(offsets, LAMBDA q : is_valid(g, q))

\* ---------------------------------------------------------------- renderer
to_upper(c) ==
  CASE c = "a" -> "A" [] c = "b" -> "B" [] c = "c" -> "C"
    [] c = "d" -> "D" [] c = "e" -> "E" [] OTHER -> c

to_lower(c) ==
  CASE c = "A" -> "a" [] c = "B" -> "b" [] c = "C" -> "c"
    [] c = "D" -> "d" [] c = "E" -> "e" [] OTHER -> c

default_char(tile) ==
  CASE tile.tag = "Fixed" -> to_upper(tile.c)
    [] tile.tag = "OneWord" -> to_lower(tile.c)
    [] tile.tag = "TwoWords" -> to_lower(tile.c)
    [] OTHER -> " "

\* self.map(default_char): Grid::map keeps width and height.
to_strgrid(g) ==
  Grid(g.width, g.height, [i \in 1..Len(g.tiles) |-> default_char(g.tiles[i])])

\* The closure of the fold: cell by cell over the zip of the two vectors.
fold_step_keeps_first(acc, x) ==
  [i \in 1..(IF Len(acc) < Len(x) THEN Len(acc) ELSE Len(x)) |-> acc[i]]

fold_step_keeps_last(acc, x) ==
  [i \in 1..(IF Len(acc) < Len(x) THEN Len(acc) ELSE Len(x)) |-> x[i]]

fold_step(accum, x) ==
  [i \in 1..(IF Len(accum) < Len(x) THEN Len(accum) ELSE Len(x)) |->
     IF accum[i] = x[i] THEN accum[i] ELSE " "]

RECURSIVE fold(_, _)
fold(accum, rest) ==
  IF rest = <<>> THEN accum
  ELSE fold(fold_step(accum, to_strgrid(Head(rest)).tiles), Tail(rest))

\* Defined on a non-empty vector only (iter.next().unwrap()).
flatten(v) ==
  Grid(v[1].width, v[1].height, fold(to_strgrid(v[1]).tiles, Tail(v)))

mask_first_owner(tile, s) ==
  CASE tile.tag = "OneWord" /\ tile.w = s -> tile
    [] tile.tag = "TwoWords" /\ tile.a = s -> tile
    [] tile.tag = "Fixed" -> tile
    [] OTHER -> NoWords

mask(tile, s) ==
  CASE tile.tag = "OneWord" /\ tile.w = s -> tile
    [] tile.tag = "TwoWords" /\ (tile.a = s \/ tile.b = s) -> tile
    [] tile.tag = "Fixed" -> tile
    [] OTHER -> NoWords

\* x.map(|&tile| ...) on one grid.
masked(g, s) ==
  Grid(g.width, g.height, [i \in 1..Len(g.tiles) |-> mask(g.tiles[i], s)])

flattenWord(v, s) == flatten([k \in 1..Len(v) |-> masked(v[k], s)])

\* ---------------------------------------------------------------- hashgrid
\* range(0, width) outside, range(0, height) inside.
scan_points(g) ==
  [i \in 1..(g.width * g.height) |-> Point((i - 1) \div g.height, (i - 1) % g.height)]

\* One turn of the inner loop body; m is the map so far, a function from the
\* letters found to their points.
RECURSIVE hashgrid_from(_, _, _)
hashgrid_from(g, pts, m) ==
  IF pts = <<>> THEN [status |-> "ok", map |-> m]
  ELSE LET p == Head(pts)
           data == get_ref(g, p)
       IN  IF data.tag = "OutOfRange" THEN [status |-> "index", map |-> m]
           ELSE IF data.tag = "Fixed"
             THEN IF data.c \in DOMAIN m
                    THEN [status |-> "duplicate", map |-> m]
                    ELSE hashgrid_from(g, Tail(pts),
                           [l \in (DOMAIN m) \cup {data.c} |->
                              IF l = data.c THEN p ELSE m[l]])
             ELSE hashgrid_from(g, Tail(pts), m)

hashgrid(g) == hashgrid_from(g, scan_points(g), << >>)

\* ---------------------------------------------------------------- word_to_path
\* HashMap::get fails on a missing key; char_at fails on an empty word.
word_to_path_ok(gridmap, word) ==
  /\ Len(word) > 0
  /\ word[1] \in DOMAIN gridmap
  /\ word[Len(word)] \in DOMAIN gridmap

word_to_path(gridmap, word) ==
  [start |-> gridmap[word[1]], end |-> gridmap[word[Len(word)]]]

\* ---------------------------------------------------------------- allpaths
\* Each entry of accum is kept with the points the branch walked (path), which
\* the program does not store, and with a flag for a failed index.
Emit(g, path) == [grid |-> g, path |-> path, panic |-> FALSE]

Panic(g, path) == [grid |-> g, path |-> path, panic |-> TRUE]

\* The match of allpaths on the tile under the branch: the tile the branch
\* writes there, or NoMatch when the branch ends.
NoMatch == [tag |-> "NoMatch"]

match_tile_allows_own_word(t, c, word) ==
  CASE t.tag = "OneWord" /\ t.c = c -> TwoWords(t.c, t.w, word)
    [] t.tag = "NoWords" -> OneWord(c, word)
    [] t.tag = "TwoWords" -> NoMatch
    [] OTHER -> NoMatch

match_tile_overwrites_two_words(t, c, word) ==
  CASE t.tag = "OneWord" /\ t.c = c /\ t.w # word -> TwoWords(t.c, t.w, word)
    [] t.tag = "NoWords" -> OneWord(c, word)
    [] t.tag = "TwoWords" /\ t.c = c /\ t.a # word /\ t.b # word -> TwoWords(t.c, t.b, word)
    [] OTHER -> NoMatch

match_tile(t, c, word) ==
  CASE t.tag = "OneWord" /\ t.c = c /\ t.w # word -> TwoWords(t.c, t.w, word)
    [] t.tag = "NoWords" -> OneWord(c, word)
    [] t.tag = "TwoWords" -> NoMatch
    [] OTHER -> NoMatch

RECURSIVE allpaths(_, _, _, _, _, _)
RECURSIVE allpaths2(_, _, _, _, _, _)

allpaths(grid, word, start, dest, s, path) ==
  LET len == Len(s) - 1
      here == Append(path, start)
  IN  IF start = dest /\ len = 0 THEN << Emit(grid, here) >>
      ELSE IF dist(start, dest) > len THEN << >>
      ELSE IF ~is_valid(grid, start) THEN << >>
      ELSE LET t == get_ref(grid, start)
           IN  IF t.tag = "OutOfRange" THEN << Panic(grid, here) >>
               ELSE LET newtile == match_tile(t, s[1], word)
                    IN  IF newtile.tag = "NoMatch" THEN << >>
                        ELSE allpaths2(replace(grid, start, newtile),
                                       word, start, dest, s, here)

RECURSIVE allpaths2_over(_, _, _, _, _, _)
allpaths2_over(grid, word, nbrs, dest, mystring, path) ==
  IF nbrs = <<>> THEN << >>
  ELSE allpaths(grid, word, Head(nbrs), dest, mystring, path)
         \o allpaths2_over(grid, word, Tail(nbrs), dest, mystring, path)

allpaths2(grid, word, start, dest, s, path) ==
  allpaths2_over(grid, word, neighbors(grid, start), dest, Tail(s), path)

\* The calls one search makes, each with the length of the suffix it got, the
\* length of its caller's suffix and the number of allpaths calls it is nested
\* in (itself included). "char_at" stands for s.char_at(0) on an empty s, which
\* fails.
Call(fn, s, caller, depth) ==
  [fn |-> fn, suffix |-> Len(s), caller |-> caller, depth |-> depth]

RECURSIVE allpaths_calls(_, _, _, _, _, _, _)
RECURSIVE allpaths2_calls(_, _, _, _, _, _, _)

allpaths_calls(grid, word, start, dest, s, caller, depth) ==
  LET len == Len(s) - 1
  IN  {Call("allpaths", s, caller, depth)} \cup
      (IF start = dest /\ len = 0 THEN {}
       ELSE IF dist(start, dest) > len THEN {}
       ELSE IF ~is_valid(grid, start) THEN {}
       ELSE LET t == get_ref(grid, start)
            IN  IF t.tag \in {"OneWord", "NoWords"} /\ s = << >>
                  THEN {Call("char_at", s, Len(s), depth)}
                ELSE IF t.tag = "OutOfRange" THEN {}
                ELSE LET newtile == match_tile(t, s[1], word)
                     IN  IF newtile.tag = "NoMatch" THEN {}
                         ELSE allpaths2_calls(replace(grid, start, newtile),
                                              word, start, dest, s, Len(s), depth))

allpaths2_calls(grid, word, start, dest, s, caller, depth) ==
  {Call("allpaths2", s, caller, depth)} \cup
  (IF s = << >> THEN {}
   ELSE UNION { allpaths_calls(grid, word, neighbors(grid, start)[i], dest, Tail(s),
                               Len(s), depth + 1) :
                i \in 1..Len(neighbors(grid, start)) })

\* ---------------------------------------------------------------- add_word
\* The loop of add_word over accum: out, in the order it is pushed. Each
\* entry also names the input candidate it came from (src).
RECURSIVE search_from(_, _, _, _)
search_from(accum, i, word, pt) ==
  IF i > Len(accum) THEN << >>
  ELSE LET found == allpaths2(accum[i], word, pt.start, pt.end, word, << pt.start >>)
       IN  [k \in 1..Len(found) |->
              [grid |-> found[k].grid, path |-> found[k].path,
               panic |-> found[k].panic, src |-> i]]
           \o search_from(accum, i + 1, word, pt)

search(accum, word, pt) == search_from(accum, 1, word, pt)

grids_of(found) == [k \in 1..Len(found) |-> found[k].grid]

\* The vector add_word goes on with after a search (lines 269-274): what was
\* found, or accum itself when nothing was.
carried_returns_out(acc, found) == grids_of(found)

carried_keeps_nothing(acc, found) == IF Len(found) > 0 THEN grids_of(found) ELSE << >>

carried(acc, found) == IF Len(found) > 0 THEN grids_of(found) ELSE acc

\* ---------------------------------------------------------------- main
\* words.sort_by(|a,b| a.len().cmp(&b.len())): a stable sort by length.
RECURSIVE insert_by_len(_, _)
insert_by_len(sorted, w) ==
  IF sorted = <<>> THEN << w >>
  ELSE IF Len(Head(sorted)) <= Len(w)
         THEN << Head(sorted) >> \o insert_by_len(Tail(sorted), w)
         ELSE << w >> \o sorted

RECURSIVE sort_by_len(_)
sort_by_len(ws) ==
  IF ws = <<>> THEN << >>
  ELSE insert_by_len(sort_by_len(SubSeq(ws, 1, Len(ws) - 1)), ws[Len(ws)])

\* ---------------------------------------------------------------- state
VARIABLES
  blankgrid,   \* the grid readgrid returned
  words,       \* the word list
  count,       \* the iteration count argument
  pc,          \* where main stands
  failure,     \* why the task failed, "" while it has not
  gridmap,     \* the letter map
  paths,       \* the anchors of each word
  iter,        \* iterations finished
  accum,       \* the candidate vector add_word holds; its result at the end
  next,        \* number of the word at the head of wordpt
  before,      \* accum as it was when the last word was searched
  out,         \* what the last search pushed, with paths and sources
  searched,    \* numbers of the words searched in this iteration
  merged,      \* the grid printed by results.flatten()
  shown        \* the grids printed by results.flattenWord(w), in order

vars == << blankgrid, words, count, pc, failure, gridmap, paths, iter, accum,
           next, before, out, searched, merged, shown >>

\* What readgrid returns for a rectangular file: blank -> NoWords, any other
\* character -> Fixed.
GridsOf(w, h) ==
  { Grid(w, h, [i \in 1..(w * h) |-> IF i \in DOMAIN f THEN Fixed(f[i]) ELSE NoWords]) :
      f \in UNION { [S -> Letters] :
                     S \in { T \in SUBSET (1..(w * h)) : Cardinality(T) <= MaxFixed } } }

BlankGrids == UNION { GridsOf(w, h) : w \in 1..MaxWidth, h \in 1..MaxHeight }

WordLists == UNION { [1..n -> WordPool] : n \in 0..MaxWords }

\* Two inputs beside those: the grid of rows "abc" and "d e" with the words
\* ad and be, and the grids of two rows and two columns with the one word
\* accca.
ScenarioGrid ==
  Grid(3, 2, << Fixed("a"), Fixed("b"), Fixed("c"), Fixed("d"), NoWords, Fixed("e") >>)

ScenarioWords == << << "a", "d" >>, << "b", "e" >> >>

RoundWord == << "a", "c", "c", "c", "a" >>

Scenarios ==
  { [grid |-> ScenarioGrid, words |-> ScenarioWords] }
    \cup { [grid |-> g, words |-> << RoundWord >>] : g \in GridsOf(2, 2) }

NoGrid == Grid(0, 0, << >>)

Init ==
  /\ \/ blankgrid \in BlankGrids /\ words \in WordLists
     \/ \E sc \in Scenarios : blankgrid = sc.grid /\ words = sc.words
  /\ count \in 0..MaxIter
  /\ pc = "sort"
  /\ failure = ""
  /\ gridmap = << >>
  /\ paths = << >>
  /\ iter = 0
  /\ accum = << >>
  /\ next = 1
  /\ before = << >>
  /\ out = << >>
  /\ searched = {}
  /\ merged = NoGrid
  /\ shown = << >>

\* main, line 282
Sort ==
  /\ pc = "sort"
  /\ words' = sort_by_len(words)
  /\ pc' = "hashgrid"
  /\ UNCHANGED << blankgrid, count, failure, gridmap, paths, iter, accum, next,
                  before, out, searched, merged, shown >>

\* main, line 283
HashGrid ==
  /\ pc = "hashgrid"
  /\ LET r == hashgrid(blankgrid)
     IN  IF r.status = "ok"
           THEN /\ gridmap' = r.map
                /\ pc' = "word_to_path"
                /\ failure' = failure
           ELSE /\ gridmap' = gridmap
                /\ pc' = "failed"
                /\ failure' = r.status
  /\ UNCHANGED << blankgrid, words, count, paths, iter, accum, next, before, out,
                  searched, merged, shown >>

\* main, line 284
WordToPath_skips_missing ==
  /\ pc = "word_to_path"
  /\ paths' = [i \in 1..Len(words) |->
                 IF word_to_path_ok(gridmap, words[i])
                   THEN word_to_path(gridmap, words[i])
                   ELSE [start |-> Point(0, 0), end |-> Point(0, 0)]]
  /\ pc' = "loop"
  /\ UNCHANGED << blankgrid, words, count, failure, gridmap, iter, accum, next,
                  before, out, searched, merged, shown >>

WordToPath ==
  /\ pc = "word_to_path"
  /\ IF \A i \in 1..Len(words) : word_to_path_ok(gridmap, words[i])
       THEN /\ paths' = [i \in 1..Len(words) |-> word_to_path(gridmap, words[i])]
            /\ pc' = "loop"
            /\ failure' = failure
       ELSE /\ paths' = paths
            /\ pc' = "failed"
            /\ failure' = "lookup"
  /\ UNCHANGED << blankgrid, words, count, gridmap, iter, accum, next, before, out,
                  searched, merged, shown >>

\* main, lines 286-289: one more turn of the loop calls add_word on the blank
\* grid alone, or the loop is over.
Loop ==
  /\ pc = "loop"
  /\ IF iter < count
       THEN /\ pc' = "add_word"
            /\ accum' = << blankgrid >>
            /\ next' = 1
            /\ before' = << >>
            /\ out' = << >>
            /\ searched' = {}
            /\ merged' = NoGrid
            /\ shown' = << >>
       ELSE /\ pc' = "done"
            /\ UNCHANGED << accum, next, before, out, searched, merged, shown >>
  /\ UNCHANGED << blankgrid, words, count, failure, gridmap, paths, iter >>

\* One call of add_word: the list is over and accum is returned, or the head
\* word is searched on every grid of accum; then add_word calls itself on
\* what was found, or returns accum when nothing was.
AddWord ==
  /\ pc = "add_word"
  /\ IF next > Len(words)
       THEN /\ pc' = "flatten"
            /\ UNCHANGED << failure, accum, next, before, out, searched >>
       ELSE LET found == search(accum, words[next], paths[next])
            IN  /\ before' = accum
                /\ out' = found
                /\ searched' = searched \cup {next}
                /\ IF \E i \in 1..Len(found) : found[i].panic
                     THEN /\ pc' = "failed"
                          /\ failure' = "index"
                          /\ UNCHANGED << accum, next >>
                     ELSE /\ accum' = carried(accum, found)
                          /\ failure' = failure
                          /\ IF Len(found) > 0
                               THEN /\ next' = next + 1
                                    /\ pc' = pc
                               ELSE /\ next' = next
                                    /\ pc' = "flatten"
  /\ UNCHANGED << blankgrid, words, count, gridmap, paths, iter, merged, shown >>

\* main, line 290
Flatten ==
  /\ pc = "flatten"
  /\ IF Len(accum) > 0
       THEN /\ merged' = flatten(accum)
            /\ pc' = "flattenWord"
            /\ failure' = failure
       ELSE /\ merged' = merged
            /\ pc' = "failed"
            /\ failure' = "unwrap"
  /\ UNCHANGED << blankgrid, words, count, gridmap, paths, iter, accum, next,
                  before, out, searched, shown >>

\* main, lines 291-294: the next word's view, or the end of this iteration.
FlattenWord ==
  /\ pc = "flattenWord"
  /\ IF Len(shown) < Len(words)
       THEN /\ shown' = Append(shown, flattenWord(accum, words[Len(shown) + 1]))
            /\ UNCHANGED << pc, iter >>
       ELSE /\ pc' = "loop"
            /\ iter' = iter + 1
            /\ shown' = shown
  /\ UNCHANGED << blankgrid, words, count, failure, gridmap, paths, accum, next,
                  before, out, searched, merged >>

Next == Sort \/ HashGrid \/ WordToPath \/ Loop \/ AddWord \/ Flatten \/ FlattenWord

Spec == Init /\ [][Next]_vars

\* ================================================================ claims
\* The word the last search was for: next moves on only when the search
\* found something.
last == IF out # << >> THEN next - 1 ELSE next

HasLetter(tile) == tile.tag \in {"Fixed", "OneWord", "TwoWords"}

Claimants(tile) ==
  CASE tile.tag = "OneWord" -> {tile.w}
    [] tile.tag = "TwoWords" -> {tile.a, tile.b}
    [] OTHER -> {}

\* C1: every grid emitted for a word of length L with anchors (S, E) has an
\* accepted path of exactly L cells, from S to E, whose consecutive cells are
\* 4-adjacent and whose tiles in the emitted grid (column x of row y) spell
\* the word, on grids of any width and height.
C1_PathSpellsWord ==
  \A k \in 1..Len(out) :
    LET e == out[k]
        w == words[last]
        pt == paths[last]
    IN  /\ Len(e.path) = Len(w)
        /\ e.path[1] = pt.start
        /\ e.path[Len(e.path)] = pt.end
        /\ \A i \in 1..(Len(e.path) - 1) : dist(e.path[i], e.path[i + 1]) = 1
        /\ \A i \in 1..Len(e.path) :
             /\ is_valid(e.grid, e.path[i])
             /\ HasLetter(tile_at(e.grid, e.path[i]))
             /\ tile_at(e.grid, e.path[i]).c = w[i]

\* The same statement with each cell read the way get_ref reads it.
C1_PathSpellsWordByGetRef ==
  \A k \in 1..Len(out) :
    LET e == out[k]
        w == words[last]
        pt == paths[last]
    IN  /\ Len(e.path) = Len(w)
        /\ e.path[1] = pt.start
        /\ e.path[Len(e.path)] = pt.end
        /\ \A i \in 1..(Len(e.path) - 1) : dist(e.path[i], e.path[i + 1]) = 1
        /\ \A i \in 1..Len(e.path) :
             /\ is_valid(e.grid, e.path[i])
             /\ HasLetter(get_ref(e.grid, e.path[i]))
             /\ get_ref(e.grid, e.path[i]).c = w[i]

\* C2: in every grid of the candidate set no tile is claimed by more than two
\* words, the two words of a TwoWords tile differ, and no emitted grid comes
\* from a branch that stepped on a tile that was already TwoWords.
C2_AtMostTwoWords ==
  /\ \A n \in 1..Len(accum) : \A i \in 1..Len(accum[n].tiles) :
       LET t == accum[n].tiles[i]
       IN  /\ t.tag \in {"Fixed", "NoWords", "OneWord", "TwoWords"}
           /\ Cardinality(Claimants(t)) <= 2
           /\ t.tag = "TwoWords" => t.a # t.b
  /\ \A k \in 1..Len(out) :
       \A i \in 2..(Len(out[k].path) - 1) :
         get_ref(before[out[k].src], out[k].path[i]).tag # "TwoWords"

\* A third word was searched on a grid where a TwoWords tile carrying its
\* second letter lies next to its start, and grids hold TwoWords tiles.
C2_Witness ==
  /\ pc = "add_word"
  /\ Cardinality(searched) = 3
  /\ \E n \in 1..Len(before) :
       \E q \in ValidPoints(before[n]) :
         /\ dist(q, paths[last].start) = 1
         /\ get_ref(before[n], q).tag = "TwoWords"
         /\ get_ref(before[n], q).c = words[last][2]
         /\ words[last] \notin Claimants(get_ref(before[n], q))
  /\ \E n \in 1..Len(accum) : \E i \in 1..Len(accum[n].tiles) :
       accum[n].tiles[i].tag = "TwoWords"

\* C3: where a branch stands, before its last step, on a Fixed tile holding
\* the first letter of the remaining suffix, it goes on into every valid
\* neighbour with the grid unchanged; on a Fixed tile holding another letter
\* it ends.
C3_FixedMatchContinues ==
  (pc = "add_word" /\ next <= Len(words)) =>
    \A n \in 1..Len(accum) : \A p \in ValidPoints(accum[n]) :
      \A i \in 2..Len(words[next]) :
        LET g == accum[n]
            w == words[next]
            s == SubSeq(w, i, Len(w))
            dest == paths[next].end
            t == get_ref(g, p)
        IN  (/\ t.tag = "Fixed"
             /\ ~(p = dest /\ Len(s) - 1 = 0)
             /\ dist(p, dest) <= Len(s) - 1)
            => IF t.c = s[1]
                 THEN allpaths(g, w, p, dest, s, << >>) = allpaths2(g, w, p, dest, s, << p >>)
                 ELSE allpaths(g, w, p, dest, s, << >>) = << >>

\* C4: once add_word has returned, a word that found nothing has not kept
\* any later word from being searched.
C4_LaterWordsStillSearched ==
  (pc \in {"flatten", "flattenWord"} /\ searched # {} /\ out = << >>) =>
    \A i \in (last + 1)..Len(words) : i \in searched

\* The grids emitted for the last word on the first n candidates it was
\* searched on.
RECURSIVE EmittedOnFirst(_)
EmittedOnFirst(n) ==
  IF n = 0 THEN << >>
  ELSE EmittedOnFirst(n - 1)
         \o grids_of(allpaths2(before[n], words[last], paths[last].start,
                               paths[last].end, words[last], << paths[last].start >>))

\* C5: after one word the candidate vector is the grids emitted for it on
\* each earlier candidate, joined in the candidates' order, when there is
\* one at least; otherwise it is the earlier vector itself.
C5_ReplacedOrUnchanged ==
  (pc \in {"add_word", "flatten"} /\ searched # {}) =>
    IF EmittedOnFirst(Len(before)) # << >>
      THEN accum = EmittedOnFirst(Len(before))
      ELSE accum = before

\* A word found nothing on a vector of several grids that an earlier word
\* had built.
C5_Witness ==
  /\ pc = "flatten"
  /\ out = << >>
  /\ Cardinality(searched) >= 2
  /\ Len(accum) >= 2
  /\ accum = before

\* The character the renderer is to show for a tile.
Upper == [a |-> "A", b |-> "B", c |-> "C", d |-> "D", e |-> "E"]

Projected(t) ==
  CASE t.tag = "Fixed" -> Upper[t.c]
    [] t.tag \in {"OneWord", "TwoWords"} -> t.c
    [] OTHER -> " "

Agreed(v, i) == \A n \in 1..Len(v) : Projected(v[n].tiles[i]) = Projected(v[1].tiles[i])

\* C6: each cell of flatten's result is the projected character of that cell
\* when all grids project the same character there and blank otherwise, with
\* the grids' width and height; for one grid it is that grid's projection.
C6_FlattenAgreement ==
  pc = "flattenWord" =>
    /\ merged.width = accum[1].width
    /\ merged.height = accum[1].height
    /\ Len(merged.tiles) = Len(accum[1].tiles)
    /\ \A i \in 1..Len(merged.tiles) :
         merged.tiles[i] = IF Agreed(accum, i) THEN Projected(accum[1].tiles[i]) ELSE " "
    /\ Len(accum) = 1 =>
         merged.tiles = [i \in 1..Len(accum[1].tiles) |-> Projected(accum[1].tiles[i])]

\* Several grids were flattened: they agree on a word's letter in one cell
\* and disagree in another, and a Fixed tile shows in upper case.
C6_Witness ==
  /\ pc = "flattenWord"
  /\ Len(accum) >= 2
  /\ \E i \in 1..Len(merged.tiles) : ~Agreed(accum, i) /\ merged.tiles[i] = " "
  /\ \E i \in 1..Len(merged.tiles) :
       accum[1].tiles[i].tag \in {"OneWord", "TwoWords"} /\ merged.tiles[i] \in Letters
  /\ \E i \in 1..Len(merged.tiles) : merged.tiles[i] \in {"A", "B", "C", "D", "E"}

Swapped(v, i, j) ==
  [k \in 1..Len(v) |-> IF k = i THEN v[j] ELSE IF k = j THEN v[i] ELSE v[k]]

\* C7: flatten gives the same grid for the candidate vector in any order:
\* every permutation of a vector of up to PermLen grids, and every exchange
\* of two grids and every rotation of a longer one.
C7_FlattenAnyOrder ==
  pc = "flattenWord" =>
    /\ Len(accum) <= PermLen =>
         \A f \in Permutations(1..Len(accum)) :
           flatten([k \in 1..Len(accum) |-> accum[f[k]]]) = merged
    /\ Len(accum) > PermLen =>
         /\ \A i, j \in 1..Len(accum) : flatten(Swapped(accum, i, j)) = merged
         /\ \A r \in 1..Len(accum) :
              flatten(SubSeq(accum, r, Len(accum)) \o SubSeq(accum, 1, r - 1)) = merged

\* A vector of three or four grids that differ in some cell was flattened.
C7_Witness ==
  /\ pc = "flattenWord"
  /\ Len(accum) >= 3
  /\ Len(accum) <= PermLen
  /\ \E i \in 1..Len(merged.tiles) : ~Agreed(accum, i)
  /\ \E i \in 1..Len(merged.tiles) :
       Projected(accum[1].tiles[i]) # Projected(accum[Len(accum)].tiles[i])

\* The grids with every OneWord or TwoWords tile that does not name w emptied.
Emptied(v, w) ==
  [n \in 1..Len(v) |->
     Grid(v[n].width, v[n].height,
          [i \in 1..Len(v[n].tiles) |->
             IF v[n].tiles[i].tag \in {"OneWord", "TwoWords"} /\ w \notin Claimants(v[n].tiles[i])
               THEN NoWords ELSE v[n].tiles[i]])]

\* C8: flattenWord(w) is flatten of the grids in which every OneWord or
\* TwoWords tile not naming w is emptied and all other tiles are kept; a
\* cell shows a lower-case letter only if every candidate has it claimed by
\* w with that letter.
C8_FlattenWordMasks ==
  \A j \in 1..Len(shown) :
    /\ shown[j] = flatten(Emptied(accum, words[j]))
    /\ \A i \in 1..Len(shown[j].tiles) :
         shown[j].tiles[i] \in Letters =>
           \A n \in 1..Len(accum) :
             /\ words[j] \in Claimants(accum[n].tiles[i])
             /\ accum[n].tiles[i].c = shown[j].tiles[i]

\* The view of a word that is the second owner of a TwoWords tile was
\* printed, and so was a view in which another word's tile is emptied.
C8_Witness ==
  /\ \E j \in 1..Len(shown) : \E n \in 1..Len(accum) : \E i \in 1..Len(accum[n].tiles) :
       /\ accum[n].tiles[i].tag = "TwoWords"
       /\ accum[n].tiles[i].b = words[j]
       /\ shown[j].tiles[i] \in Letters
  /\ \E j \in 1..Len(shown) : \E n \in 1..Len(accum) : \E i \in 1..Len(accum[n].tiles) :
       /\ accum[n].tiles[i].tag = "OneWord"
       /\ accum[n].tiles[i].w # words[j]
       /\ shown[j].tiles[i] = " "

InBounds(g, x, y) == 0 <= x /\ x < g.width /\ 0 <= y /\ y < g.height

\* C9: neighbors(p) is the in-bounds orthogonal neighbours of p in the order
\* west (x-1), east (x+1), north (y-1), south (y+1).
C9_NeighborOrder ==
  pc = "add_word" =>
    \A n \in 1..Len(accum) : \A p \in ValidPoints(accum[n]) :
      neighbors(accum[n], p) =
        SelectSeq(<< Point(p.x - 1, p.y), Point(p.x + 1, p.y),
                     Point(p.x, p.y - 1), Point(p.x, p.y + 1) >>,
                  LAMBDA q : InBounds(accum[n], q.x, q.y))

\* C10: on a grid of any width and height whose vector has width*height
\* tiles, distinct valid points address distinct tiles inside the vector,
\* and replace(p, v) gives a grid that reads v at p and the old value at
\* every other valid point.
C10_PointsAddressDistinctCells ==
  LET g == blankgrid
  IN  (pc # "sort" /\ Len(g.tiles) = g.width * g.height) =>
        \A p \in ValidPoints(g) :
          /\ in_range(g, tile_index(g, p))
          /\ \A q \in ValidPoints(g) : q # p => tile_index(g, q) # tile_index(g, p)
          /\ \A v \in {NoWords, OneWord("c", << "c" >>)} :
               /\ get_ref(replace(g, p, v), p) = v
               /\ \A q \in ValidPoints(g) :
                    q # p => get_ref(replace(g, p, v), q) = get_ref(g, q)

\* The points of the grid, in the rows readgrid laid out, whose tile is
\* Fixed with letter l.
Holders(g, l) == { p \in ValidPoints(g) : tile_at(g, p) = Fixed(l) }

FixedLetters(g) == { g.tiles[i].c : i \in { k \in 1..Len(g.tiles) : g.tiles[k].tag = "Fixed" } }

\* C11: on a grid of any width and height, hashgrid fails with the
\* duplicate-letter condition when some letter is held by two Fixed cells,
\* and otherwise returns the map that sends each Fixed letter to the
\* coordinates of the cell that holds it.
C11_HashgridDuplicateOrMap ==
  pc \notin {"sort", "hashgrid"} =>
    IF \E l \in FixedLetters(blankgrid) : Cardinality(Holders(blankgrid, l)) > 1
      THEN pc = "failed" /\ failure = "duplicate"
      ELSE /\ failure \notin {"duplicate", "index"}
           /\ DOMAIN gridmap = FixedLetters(blankgrid)
           /\ \A l \in DOMAIN gridmap : Holders(blankgrid, l) = {gridmap[l]}

\* The same statement on the grids with as many rows as columns.
C11_OnSquareGrids ==
  blankgrid.width = blankgrid.height => C11_HashgridDuplicateOrMap

Anchored(l) == l \in DOMAIN gridmap

\* C12: when some word's first or last letter has no entry in the letter
\* map, the run ends in the anchor-lookup failure before any word is
\* searched or any grid printed.
C12_MissingAnchorIsFatal ==
  (/\ pc \notin {"sort", "hashgrid", "word_to_path"}
   /\ failure \notin {"duplicate", "index"}
   /\ \E i \in 1..Len(words) :
        ~Anchored(words[i][1]) \/ ~Anchored(words[i][Len(words[i])]))
  => /\ pc = "failed"
     /\ failure = "lookup"
     /\ searched = {}
     /\ out = << >>
     /\ accum = << >>
     /\ merged = NoGrid
     /\ shown = << >>

\* The run failed on a word whose first letter is in the map and whose last
\* letter is not, in a list that also holds a word with both anchors.
C12_Witness ==
  /\ pc = "failed"
  /\ failure = "lookup"
  /\ \E i \in 1..Len(words) :
       Anchored(words[i][1]) /\ ~Anchored(words[i][Len(words[i])])
  /\ \E i \in 1..Len(words) :
       Anchored(words[i][1]) /\ Anchored(words[i][Len(words[i])])

\* C13: no accepted path of a word visits the same cell twice, words whose
\* first and last letters share one anchor included, and no TwoWords tile
\* names one word in both slots.
C13_NoSelfCrossing ==
  /\ \A k \in 1..Len(out) :
       \A i, j \in 1..Len(out[k].path) : i # j => out[k].path[i] # out[k].path[j]
  /\ \A n \in 1..Len(accum) : \A i \in 1..Len(accum[n].tiles) :
       accum[n].tiles[i].tag = "TwoWords" => accum[n].tiles[i].a # accum[n].tiles[i].b

\* What the enumerator does keep: only the first and the last cell of a
\* path may be one cell, and no tile names one word in both slots.
C13_OnlyAnchorsRepeat ==
  /\ \A k \in 1..Len(out) :
       \A i, j \in 1..Len(out[k].path) :
         (i < j /\ out[k].path[i] = out[k].path[j]) => (i = 1 /\ j = Len(out[k].path))
  /\ \A n \in 1..Len(accum) : \A i \in 1..Len(accum[n].tiles) :
       accum[n].tiles[i].tag = "TwoWords" => accum[n].tiles[i].a # accum[n].tiles[i].b

\* A tile of a grid and the same tile of a grid derived from it.
Forward(old, new) ==
  CASE old.tag = "Fixed" -> new.tag = "Fixed" /\ new.c = old.c
    [] old.tag = "NoWords" -> new.tag \in {"NoWords", "OneWord"}
    [] old.tag = "OneWord" ->
         \/ new.tag = "OneWord" /\ new.c = old.c /\ new.w = old.w
         \/ new.tag = "TwoWords" /\ new.c = old.c /\ new.a = old.w
    [] old.tag = "TwoWords" ->
         new.tag = "TwoWords" /\ new.c = old.c /\ new.a = old.a /\ new.b = old.b
    [] OTHER -> FALSE

\* C14: from a candidate grid to each grid emitted from it every tile only
\* moves forward (Fixed stays, Empty may become OneWord, OneWord(c, w) may
\* become TwoWords(c, w, w'), TwoWords stays), and the Fixed tiles of every
\* candidate are those of the initial grid.
C14_TilesMoveForward ==
  /\ \A k \in 1..Len(out) : \A i \in 1..Len(out[k].grid.tiles) :
       Forward(before[out[k].src].tiles[i], out[k].grid.tiles[i])
  /\ \A n \in 1..Len(accum) : \A i \in 1..Len(accum[n].tiles) :
       (blankgrid.tiles[i].tag = "Fixed" \/ accum[n].tiles[i].tag = "Fixed")
         => accum[n].tiles[i] = blankgrid.tiles[i]

\* One emitted grid turned an Empty tile into OneWord where its source held
\* a TwoWords tile, and one turned a OneWord tile into TwoWords.
C14_Witness ==
  /\ \E k \in 1..Len(out) :
       /\ \E i \in 1..Len(out[k].grid.tiles) :
            before[out[k].src].tiles[i].tag = "NoWords" /\ out[k].grid.tiles[i].tag = "OneWord"
       /\ \E i \in 1..Len(out[k].grid.tiles) : before[out[k].src].tiles[i].tag = "TwoWords"
  /\ \E k \in 1..Len(out) : \E i \in 1..Len(out[k].grid.tiles) :
       before[out[k].src].tiles[i].tag = "OneWord" /\ out[k].grid.tiles[i].tag = "TwoWords"

InScenario == blankgrid = ScenarioGrid /\ words = ScenarioWords

\* C15: on the grid of rows "abc" and "d e" with the words ad and be the
\* solve reaches rendering without a failure, with two accepted grids, and
\* the merged output shows a, d, b, e in lower case and blank everywhere
\* else, the cell of c included.
C15_ScenarioOutput ==
  InScenario =>
    /\ pc # "failed"
    /\ pc = "flattenWord" =>
         /\ Len(accum) = 2
         /\ merged = Grid(3, 2, << "a", "b", " ", "d", " ", "e" >>)

\* Where the run on that input stops.
C15_ScenarioFailsInHashgrid ==
  (InScenario /\ pc \notin {"sort", "hashgrid"}) =>
    pc = "failed" /\ failure = "duplicate"

\* The enumerator without its distance test: a branch goes on until the
\* word's letters are used up.
RECURSIVE unpruned(_, _, _, _, _, _)
RECURSIVE unpruned2(_, _, _, _, _, _)

unpruned(grid, word, start, dest, s, path) ==
  IF s = << >> THEN << >>
  ELSE IF start = dest /\ Len(s) = 1 THEN << Emit(grid, Append(path, start)) >>
  ELSE IF ~is_valid(grid, start) THEN << >>
  ELSE LET newtile == match_tile(get_ref(grid, start), s[1], word)
       IN  IF newtile.tag = "NoMatch" THEN << >>
           ELSE unpruned2(replace(grid, start, newtile), word, start, dest, s,
                          Append(path, start))

RECURSIVE unpruned2_over(_, _, _, _, _, _)
unpruned2_over(grid, word, nbrs, dest, mystring, path) ==
  IF nbrs = << >> THEN << >>
  ELSE unpruned(grid, word, Head(nbrs), dest, mystring, path)
         \o unpruned2_over(grid, word, Tail(nbrs), dest, mystring, path)

unpruned2(grid, word, start, dest, s, path) ==
  unpruned2_over(grid, word, neighbors(grid, start), dest, Tail(s), path)

Manhattan(p, q) ==
  (IF p.x < q.x THEN q.x - p.x ELSE p.x - q.x) + (IF p.y < q.y THEN q.y - p.y ELSE p.y - q.y)

\* C16: for every candidate grid and word the enumerator emits, in order,
\* exactly what it emits without the distance test, and an accepted path
\* between anchors at distance D has at least D+1 cells.
C16_PruneIsSound ==
  /\ (pc = "add_word" /\ next <= Len(words)) =>
       \A n \in 1..Len(accum) :
         allpaths2(accum[n], words[next], paths[next].start, paths[next].end,
                   words[next], << paths[next].start >>)
           = unpruned2(accum[n], words[next], paths[next].start, paths[next].end,
                       words[next], << paths[next].start >>)
  /\ \A k \in 1..Len(out) :
       Len(out[k].path) >= Manhattan(paths[last].start, paths[last].end) + 1

\* A search emitted a grid and the distance test ended a branch on an Empty
\* tile next to the start, which the tile itself would have let through.
C16_Witness ==
  /\ pc = "add_word"
  /\ out # << >>
  /\ \E n \in 1..Len(before) : \E q \in ValidPoints(before[n]) :
       /\ Manhattan(q, paths[last].start) = 1
       /\ get_ref(before[n], q).tag = "NoWords"
       /\ Manhattan(q, paths[last].end) > Len(words[last]) - 2

\* The calls of the search add_word is about to make for the head word.
CallsAhead ==
  UNION { allpaths2_calls(accum[n], words[next], paths[next].start, paths[next].end,
                          words[next], Len(words[next]), 0) : n \in 1..Len(accum) }

\* The steps main has left at most: 2 * Len(words) + 4 for each iteration
\* (the searches, the return of add_word, flatten, the views, the loop test).
StepsLeft ==
  LET W == Len(words)
      later == (count - iter - 1) * (2 * W + 4) + 1
  IN  CASE pc = "sort" -> count * (2 * W + 4) + 4
        [] pc = "hashgrid" -> count * (2 * W + 4) + 3
        [] pc = "word_to_path" -> count * (2 * W + 4) + 2
        [] pc = "loop" -> (count - iter) * (2 * W + 4) + 1
        [] pc = "add_word" -> later + (2 * W + 4 - next)
        [] pc = "flatten" -> later + (W + 2)
        [] pc = "flattenWord" -> later + (W + 1 - Len(shown))
        [] OTHER -> 0

C17_Calls ==
  /\ (pc = "add_word" /\ next <= Len(words)) =>
       \A c \in CallsAhead :
         /\ c.fn # "char_at"
         /\ c.fn = "allpaths" => c.suffix = c.caller - 1
         /\ c.fn = "allpaths2" => c.suffix >= 1 /\ c.suffix = c.caller
         /\ c.depth <= Len(words[next])
         /\ c.depth + c.suffix = Len(words[next])
  /\ pc \in {"add_word", "flatten", "flattenWord"} =>
       /\ next <= Len(words) + 1
       /\ searched = 1..(IF out # << >> \/ searched = {} THEN next - 1 ELSE next)
  /\ StepsLeft >= 0

\* C17: in every search each call of allpaths gets a suffix one character
\* shorter than its caller's, allpaths2 is never entered with an empty
\* suffix, no call reads a letter of an empty suffix, and the nesting of
\* allpaths never exceeds the word's length; add_word takes the words one
\* after the other, each at most once, and every step of main leaves fewer
\* steps to take, so the run ends.
C17_SearchTerminates == []C17_Calls /\ [][StepsLeft' < StepsLeft]_vars

\* A search of a three-letter word is ahead whose calls reach the last
\* letter, and a word has been searched before it.
C17_Witness ==
  /\ pc = "add_word"
  /\ next <= Len(words)
  /\ searched # {}
  /\ Len(words[next]) = 3
  /\ \E c \in CallsAhead : c.fn = "allpaths" /\ c.suffix = 1 /\ c.depth = 2


\* C18: no two entries of the candidate set are equal grids.
C18_NoEqualGrids ==
  pc \in {"add_word", "flatten", "flattenWord"} =>
    \A i, j \in 1..Len(accum) : i # j => accum[i] # accum[j]


\* The cells of a path between its two anchors.
Intermediate(path) == { path[i] : i \in 2..(Len(path) - 1) }

\* C19: every grid emitted for a word reads, at every cell that is not an
\* intermediate cell of its own path, as the input candidate it was derived
\* from reads there.
C19_BranchesIsolated ==
  (pc = "add_word" /\ out # << >>) =>
    \A k \in 1..Len(out) :
      ~out[k].panic =>
        \A p \in ValidPoints(out[k].grid) :
          p \notin Intermediate(out[k].path) =>
            get_ref(out[k].grid, p) = get_ref(before[out[k].src], p)

\* The same, reading the cells by rows as readgrid stores them.
C19_IsolatedByRows ==
  (pc = "add_word" /\ out # << >>) =>
    \A k \in 1..Len(out) :
      ~out[k].panic =>
        \A p \in ValidPoints(out[k].grid) :
          p \notin Intermediate(out[k].path) =>
            tile_at(out[k].grid, p) = tile_at(before[out[k].src], p)

\* Tile by tile the branches are isolated: an emitted grid differs from its
\* input candidate only in tiles its own path wrote.
C19_IsolatedTileWise ==
  (pc = "add_word" /\ out # << >>) =>
    \A k \in 1..Len(out) :
      ~out[k].panic =>
        LET e == out[k]
            from == before[e.src]
        IN  /\ e.grid.width = from.width /\ e.grid.height = from.height
            /\ Len(e.grid.tiles) = Len(from.tiles)
            /\ \A i \in 1..Len(from.tiles) :
                 e.grid.tiles[i] # from.tiles[i] =>
                   \E p \in Intermediate(e.path) : tile_index(from, p) + 1 = i

\* On square grids a point is a cell, and the claim holds.
C19_OnSquareGrids ==
  blankgrid.width = blankgrid.height => C19_BranchesIsolated /\ C19_IsolatedByRows


\* C20: the candidate set is never empty, after every insertion step and
\* when add_word has returned, so flatten and flattenWord always have a
\* first grid to fold from and the unwrap never fails.
C20_CandidatesNeverEmpty ==
  /\ pc \in {"add_word", "flatten", "flattenWord"} => Len(accum) >= 1
  /\ failure # "unwrap"
  /\ pc = "flattenWord" => merged = flatten(accum)
  /\ (pc = "flattenWord" /\ shown # << >>) =>
       shown[Len(shown)] = flattenWord(accum, words[Len(shown)])

\* The first word of a list of several found nothing, and the initial grid
\* alone was rendered.
C20_Witness ==
  /\ pc = "flattenWord"
  /\ Len(words) >= 2
  /\ searched = {1}
  /\ out = << >>
  /\ accum = << blankgrid >>
  /\ Len(shown) >= 1

====
